---- MODULE Spec2Model ----
(***************************************************************************)
(* Model of network-mac-scanner/mac_scanner.py: a coordinator (main)       *)
(* submits one handle_device call per device line to a bounded thread      *)
(* pool, consumes the futures as they complete and stops at the first      *)
(* non-empty result; every poller (handle_device) checks the shared        *)
(* mac_found_event, opens a session, polls the device and reports its      *)
(* completion under progress_lock.                                         *)
(*                                                                         *)
(* One step of a poller is one access to shared state (the event, the      *)
(* lock, the counter) or one call of the transport; the local computation  *)
(* that follows a call (strip, substring test, row parse) belongs to the   *)
(* same step.                                                              *)
(***************************************************************************)
EXTENDS Integers, Sequences, FiniteSets, TLC

\* ---------------------------------------------------------------- bounds
\* Number of lines of the device file (len(devices)).
NumDevices == 3
\* Longest command output, in lines.
MaxLines == 2
\* Longest time one send_command_timing call takes, in time units.
MaxSendDelay == 1
\* Number of two-digit groups the MAC texts are built from.
NumHexGroups == 3

\* ------------------------------------------------------ program constants
\* max_workers of the ThreadPoolExecutor. The program uses 40; the model
\* scales it down so that the pool is smaller than the device list.
max_workers == 2
\* timeout_per_device. The program uses 60; the model scales it down so that a
\* device is polled once or twice before the timeout.
timeout_per_device == 3
\* time.sleep(2) between two lookups.
poll_sleep == 2

Devices == 1..NumDevices
Coordinator == 0

\* A device line, by what handle_device's parsing makes of it:
\*   "fields"   len(parts) != 2 after split(",")
\*   "vendor"   two fields, vendor not in ["huawei", "alcatel_aos"]
\*   "valid"    an address and one of the two vendors
\* handle_huawei_device and handle_alcatel_device take the same steps (they
\* differ in the command text, the substring form and the row pattern), so one
\* set of actions models both and a valid line does not name its vendor.
DeviceLines == {"fields", "vendor", "valid"}

\* One line of command output: which MAC text it holds (the target's, in the
\* vendor's substring form, another one, or none) and whether the vendor's row
\* pattern matches the line. A row always holds a MAC.
OutputLines ==
  { [mac |-> "target", row |-> TRUE], [mac |-> "target", row |-> FALSE],
    [mac |-> "other", row |-> TRUE], [mac |-> "none", row |-> FALSE] }

RECURSIVE SeqsUpTo(_, _)
SeqsUpTo(S, n) ==
  IF n = 0 THEN { <<>> }
  ELSE LET shorter == SeqsUpTo(S, n - 1)
       IN shorter \cup { Append(s, x) : s \in { t \in shorter : Len(t) = n - 1 }, x \in S }

\* The stripped outputs a device can answer with; <<>> is the empty output.
Outputs == SeqsUpTo(OutputLines, MaxLines)

\* Python's None for a poller's result. A Match Record is <<mac, ip>>: the MAC
\* of the matched row and the device it was found on (the device's index stands
\* for its address and hostname; the row's other fields are not modelled).
None == <<>>

VARIABLES
  devices,            \* the device file's lines
  total_devices, completed_devices, progress_lock,
  mac_found_event,
  queue,              \* the executor's work queue (device indices)
  fut,                \* state of each future
  fresult,            \* what a finished future holds
  fexc,               \* whether a finished future holds an exception
  cpc, ci, yielded, found_result, outcome,   \* main
  pc, conn, elapsed, ret, exc, reg,  \* handle_device, per device
  counted,            \* increments of completed_devices made by each poller
  setBy,              \* who has called mac_found_event.set()
  sawTarget,          \* devices that answered with the target in the output
  found_assigns,      \* assignments of a result to found_result
  gotEmpty,           \* pollers whose running call got an empty output
  afterStop,          \* lookups each running call sent while the event was set
  search_mac, huawei_mac, standard_mac   \* a MAC text and its two conversions

sharedVars == <<total_devices, completed_devices, progress_lock, mac_found_event>>
poolVars == <<queue, fut, fresult, fexc>>
coordVars == <<cpc, ci, yielded, found_result, outcome>>
pollerVars == <<pc, conn, elapsed, ret, exc, reg>>
historyVars == <<counted, setBy, sawTarget, found_assigns>>
callVars == <<gotEmpty, afterStop>>
scanVars == <<devices, sharedVars, poolVars, coordVars, pollerVars, historyVars, callVars>>
macVars == <<search_mac, huawei_mac, standard_mac>>
vars == <<scanVars, macVars>>

\* ------------------------------------------------------------ MAC texts
\* A text is a sequence of characters.
Digits == {"0", "1", "2", "3", "4", "5", "6", "7", "8", "9"}
LowerLetters == {"a", "b", "c", "d", "e", "f"}
UpperLetters == {"A", "B", "C", "D", "E", "F"}

\* A class that keeps every character.
IsAnyChar(c) == TRUE

\* The class [0-9a-fA-F] of the pattern in mac_to_huawei_format
IsHexDigit(c) == c \in Digits \cup LowerLetters \cup UpperLetters

\* str.lower() and str.upper() on the characters a MAC text can hold
LowerChar(c) ==
  CASE c = "A" -> "a" [] c = "B" -> "b" [] c = "C" -> "c"
    [] c = "D" -> "d" [] c = "E" -> "e" [] c = "F" -> "f" [] OTHER -> c
UpperChar(c) ==
  CASE c = "a" -> "A" [] c = "b" -> "B" [] c = "c" -> "C"
    [] c = "d" -> "D" [] c = "e" -> "E" [] c = "f" -> "F" [] OTHER -> c
LowerStr(s) == [i \in 1..Len(s) |-> LowerChar(s[i])]
UpperStr(s) == [i \in 1..Len(s) |-> UpperChar(s[i])]

\* The slice s[a:b] of Python: clipped to the text's length.
Slice(s, a, b) == SubSeq(s, a + 1, IF b < Len(s) THEN b ELSE Len(s))

\* sep.join(parts)
RECURSIVE Join(_, _)
Join(parts, sep) ==
  IF Len(parts) = 0 THEN <<>>
  ELSE IF Len(parts) = 1 THEN parts[1]
  ELSE parts[1] \o sep \o Join(Tail(parts), sep)

\* re.sub(r"[^0-9a-fA-F]", "", mac), then the three slices joined by "-"
mac_to_huawei_format(mac) ==
  LET mac_clean == SelectSeq(mac, IsHexDigit)
  IN Slice(mac_clean, 0, 4) \o <<"-">> \o Slice(mac_clean, 4, 8) \o <<"-">>
       \o Slice(mac_clean, 8, 12)

\* mac.replace("-", "").lower(), then the six slices of range(0, 12, 2) joined
\* by ":" and upper()
NotHyphen(c) == c # "-"
huawei_mac_to_standard(mac) ==
  LET mac_clean == LowerStr(SelectSeq(mac, NotHyphen))
  IN UpperStr(Join([k \in 1..6 |-> Slice(mac_clean, 2 * (k - 1), 2 * k)], <<":">>))

\* Two-digit groups of digits and letters of either case, and the standard MAC
\* texts built from the first NumHexGroups of them: six groups joined by ":".
SampleGroups ==
  << <<"0", "a">>, <<"B", "9">>, <<"c", "F">>, <<"E", "d">>, <<"7", "3">>, <<"A", "A">> >>
HexGroups == { SampleGroups[i] : i \in 1..NumHexGroups }
StandardMacs == { Join(groups, <<":">>) : groups \in [1..6 -> HexGroups] }

\* ------------------------------------------------------------ pure parts
\* A substring test that accepts any non-empty output.
ContainsAny(out) == out # <<>>

\* `huawei_mac in mac_output.lower()` / `search_mac_lower in mac_output.lower()`
ContainsTarget(out) == \E i \in 1..Len(out) : out[i].mac = "target"

\* The `for line in mac_output.splitlines()` loop: the first line the row
\* pattern matches, 0 when there is none.
FirstRow(out) ==
  IF \E i \in 1..Len(out) : out[i].row
  THEN CHOOSE i \in 1..Len(out) : out[i].row /\ \A j \in 1..(i - 1) : ~out[j].row
  ELSE 0

\* An empty test that never fires.
IsEmptyNever(out) == FALSE

\* `if not mac_output:` on the stripped output
IsEmpty(out) == out = <<>>

\* What a vendor handler computes from one stripped output: whether it is
\* empty, whether the substring test finds the target, and the MAC of the first
\* row the pattern matches ("none" without such a row). `target` records whether
\* the device's answer held the target at all, `blank` whether it had no line.
Reply(out) ==
  [ target |-> \E i \in 1..Len(out) : out[i].mac = "target",
    blank |-> Len(out) = 0,
    empty |-> IsEmpty(out),
    contains |-> ContainsTarget(out),
    row |-> IF FirstRow(out) # 0 THEN out[FirstRow(out)].mac ELSE "none" ]

\* The replies of all outputs within the bounds.
Replies == { Reply(out) : out \in Outputs }

\* The tuple the vendor handler returns for the matched row.
MatchRecord(reply, d) == <<reply.row, d>>

\* An event that is never seen set.
is_set_never(ev) == FALSE

\* mac_found_event.is_set() in handle_device and in the vendor handlers
is_set(ev) == ev

\* A clock that stands still.
TimeStuck(t, delay) == t

\* time.time() - start_time at the next test of the loop condition, after a
\* send that took `delay` and time.sleep(2)
TimeAfter(t, delay) == t + delay + poll_sleep

\* A flag that is flipped instead of set.
ToggleEvent(ev) == ~ev

\* mac_found_event.set()
SetEvent(ev) == TRUE

\* A loop head that breaks on the event alone.
StopConsumingEvent(ev, found) == ev

\* `if mac_found_event.is_set() and found_result: break` at the head of main's loop
StopConsuming(ev, found) == ev /\ found # None

\* A try block without the except clause.
PropagatesAll(raised) == raised

\* What `except Exception` in handle_device leaves of a raised exception.
Propagates(raised) == FALSE

\* Counter updates that do not take the lock.
LockIgnored(lock) == TRUE

\* `with progress_lock:` blocks while another thread holds the lock.
LockFree(lock) == lock = 0

\* A pool that starts a thread for every submitted call.
CanStartAlways(running) == TRUE

\* The worker pool runs a queued call only while fewer than max_workers run.
CanStart(running) == Cardinality(running) < max_workers

Running == { d \in Devices : fut[d] = "running" }

ScanInit ==
  /\ devices \in [Devices -> DeviceLines]
  /\ total_devices = NumDevices
  /\ completed_devices = 0
  /\ progress_lock = 0
  /\ mac_found_event = FALSE
  /\ queue = <<>>
  /\ fut = [d \in Devices |-> "new"]
  /\ fresult = [d \in Devices |-> None]
  /\ fexc = [d \in Devices |-> FALSE]
  /\ cpc = "submit"
  /\ ci = 1
  /\ yielded = {}
  /\ found_result = None
  /\ outcome = "running"
  /\ pc = [d \in Devices |-> "idle"]
  /\ conn = [d \in Devices |-> "none"]
  /\ elapsed = [d \in Devices |-> 0]
  /\ ret = [d \in Devices |-> None]
  /\ exc = [d \in Devices |-> FALSE]
  /\ reg = [d \in Devices |-> 0]
  /\ counted = [d \in Devices |-> 0]
  /\ setBy = {}
  /\ sawTarget = {}
  /\ found_assigns = 0
  /\ gotEmpty = {}
  /\ afterStop = [d \in Devices |-> 0]

\* A scan: the MAC texts are not modelled (the target is the line kind "target").
Init ==
  /\ ScanInit
  /\ search_mac = <<>>
  /\ huawei_mac = <<>>
  /\ standard_mac = <<>>

\* ------------------------------------------------------------ the pool
\* A worker thread takes the next work item: a cancelled future is dropped,
\* any other starts to run handle_device.
Start(d) ==
  /\ queue # <<>>
  /\ d = Head(queue)
  /\ CanStart(Running)
  /\ queue' = Tail(queue)
  /\ IF fut[d] = "cancelled"
     THEN UNCHANGED <<fut, pc>>
     ELSE /\ fut' = [fut EXCEPT ![d] = "running"]
          /\ pc' = [pc EXCEPT ![d] = "hd_check"]
  /\ UNCHANGED <<devices, sharedVars, fresult, fexc, coordVars, conn, elapsed,
                 ret, exc, reg, historyVars, callVars, macVars>>

\* handle_device returns r (or, with e, raises): the future is finished and
\* the call's locals, the session object among them, are gone.
Finish(d, r, e) ==
  /\ fut' = [fut EXCEPT ![d] = "finished"]
  /\ fresult' = [fresult EXCEPT ![d] = IF e THEN None ELSE r]
  /\ fexc' = [fexc EXCEPT ![d] = e]
  /\ pc' = [pc EXCEPT ![d] = "done"]
  /\ ret' = [ret EXCEPT ![d] = None]
  /\ exc' = [exc EXCEPT ![d] = FALSE]
  /\ reg' = [reg EXCEPT ![d] = 0]
  /\ conn' = [conn EXCEPT ![d] = "none"]
  /\ gotEmpty' = gotEmpty \ {d}
  /\ afterStop' = [afterStop EXCEPT ![d] = 0]

\* handle_device leaves its try block with return value r, the session in
\* state c and, with e, an exception still raised; the finally clause runs next.
Leave(d, r, c, e) ==
  /\ pc' = [pc EXCEPT ![d] = "fin_lock"]
  /\ ret' = [ret EXCEPT ![d] = r]
  /\ conn' = [conn EXCEPT ![d] = c]
  /\ exc' = [exc EXCEPT ![d] = e]
  /\ elapsed' = [elapsed EXCEPT ![d] = 0]

\* A transport call on the open session raises inside the try block: the
\* except clause makes handle_device return None.
Raise(d) == Leave(d, None, "open", Propagates(TRUE))

\* The vendor handler returns r; conn.disconnect() closes the session, or raises.
Disconnect(d, r) ==
  \/ Leave(d, r, "closed", FALSE)
  \/ Raise(d)

\* What follows the polling loop: the second substring test and the row parse.
\* The first line the row pattern matches makes the handler set the event and
\* return the record; otherwise it returns None.
PostLoop(d, reply) ==
  IF reply.contains /\ reply.row # "none"
  THEN /\ mac_found_event' = SetEvent(mac_found_event)
       /\ setBy' = setBy \cup {d}
       /\ Disconnect(d, MatchRecord(reply, d))
  ELSE /\ Disconnect(d, None)
       /\ UNCHANGED <<mac_found_event, setBy>>

\* ------------------------------------------------------- handle_device
\* The stop check at entry, the parsing of the device line, and for a valid
\* line ssh_connect, set_base_prompt and find_prompt.
HdCheck(d) ==
  /\ pc[d] = "hd_check"
  /\ IF is_set(mac_found_event)
     THEN /\ Finish(d, None, FALSE)
          /\ UNCHANGED elapsed
     ELSE /\ IF devices[d] \in {"fields", "vendor"}
             THEN /\ pc' = [pc EXCEPT ![d] = "skip_lock"]
                  /\ UNCHANGED <<conn, ret, exc, elapsed>>
             ELSE \/ Leave(d, None, "none", FALSE)    \* ssh_connect returned None
                  \/ Raise(d)                         \* a prompt call raised
                  \/ /\ conn' = [conn EXCEPT ![d] = "open"]
                     /\ pc' = [pc EXCEPT ![d] = "vh_check"]
                     /\ UNCHANGED <<ret, exc, elapsed>>
          /\ UNCHANGED <<fut, fresult, fexc, reg, callVars>>
  /\ UNCHANGED <<devices, sharedVars, queue, coordVars, historyVars, macVars>>

\* `with progress_lock:` of a skipped line: take the lock, load the counter.
SkipLock(d) ==
  /\ pc[d] = "skip_lock"
  /\ LockFree(progress_lock)
  /\ progress_lock' = d
  /\ reg' = [reg EXCEPT ![d] = completed_devices]
  /\ pc' = [pc EXCEPT ![d] = "skip_unlock"]
  /\ UNCHANGED <<devices, total_devices, completed_devices, mac_found_event, poolVars,
                 coordVars, conn, elapsed, ret, exc, historyVars, callVars, macVars>>

\* Store the incremented counter, print the progress line, release the lock,
\* return None.
SkipUnlock(d) ==
  /\ pc[d] = "skip_unlock"
  /\ completed_devices' = reg[d] + 1
  /\ counted' = [counted EXCEPT ![d] = @ + 1]
  /\ progress_lock' = 0
  /\ Finish(d, None, FALSE)
  /\ UNCHANGED <<devices, total_devices, mac_found_event, queue, coordVars,
                 elapsed, setBy, sawTarget, found_assigns, macVars>>

\* The vendor handler's entry: the stop check, the command that disables
\* pagination, start_time = time.time() and the first test of the loop
\* condition (true, no time has passed).
VhCheck(d) ==
  /\ pc[d] = "vh_check"
  /\ IF is_set(mac_found_event)
     THEN Disconnect(d, None)
     ELSE \/ Raise(d)
          \/ /\ pc' = [pc EXCEPT ![d] = "loop_check"]
             /\ elapsed' = [elapsed EXCEPT ![d] = 0]
             /\ UNCHANGED <<conn, ret, exc>>
  /\ UNCHANGED <<devices, sharedVars, poolVars, coordVars, reg, historyVars, callVars,
                 macVars>>

\* The stop check at the head of a loop iteration.
LoopCheck(d) ==
  /\ pc[d] = "loop_check"
  /\ IF is_set(mac_found_event)
     THEN Disconnect(d, None)
     ELSE /\ pc' = [pc EXCEPT ![d] = "send"]
          /\ UNCHANGED <<conn, ret, exc, elapsed>>
  /\ UNCHANGED <<devices, sharedVars, poolVars, coordVars, reg, historyVars, callVars,
                 macVars>>

\* send_command_timing(cmd).strip() and what follows it up to the next access
\* to shared state: the empty test, the substring test, time.sleep(2) and the
\* next test of the loop condition, or the code after the loop.
Send(d) ==
  /\ pc[d] = "send"
  /\ afterStop' = [afterStop EXCEPT ![d] = IF mac_found_event THEN @ + 1 ELSE @]
  /\ \/ /\ Raise(d)
        /\ UNCHANGED <<mac_found_event, setBy, sawTarget, gotEmpty>>
     \/ \E reply \in Replies :
          /\ sawTarget' = IF reply.target THEN sawTarget \cup {d} ELSE sawTarget
          /\ gotEmpty' = IF reply.blank THEN gotEmpty \cup {d} ELSE gotEmpty
          /\ IF reply.empty
             THEN /\ Disconnect(d, None)
                  /\ UNCHANGED <<mac_found_event, setBy>>
             ELSE IF reply.contains
                  THEN PostLoop(d, reply)
                  ELSE \E delay \in 0..MaxSendDelay :
                         IF TimeAfter(elapsed[d], delay) >= timeout_per_device
                         THEN PostLoop(d, reply)
                         ELSE /\ pc' = [pc EXCEPT ![d] = "loop_check"]
                              /\ elapsed' = [elapsed EXCEPT ![d] = TimeAfter(@, delay)]
                              /\ UNCHANGED <<conn, ret, exc, mac_found_event, setBy>>
  /\ UNCHANGED <<devices, total_devices, completed_devices, progress_lock, poolVars,
                 coordVars, reg, counted, found_assigns, macVars>>

\* The finally clause: take the lock, load the counter.
FinLock(d) ==
  /\ pc[d] = "fin_lock"
  /\ LockFree(progress_lock)
  /\ progress_lock' = d
  /\ reg' = [reg EXCEPT ![d] = completed_devices]
  /\ pc' = [pc EXCEPT ![d] = "fin_unlock"]
  /\ UNCHANGED <<devices, total_devices, completed_devices, mac_found_event, poolVars,
                 coordVars, conn, elapsed, ret, exc, historyVars, callVars, macVars>>

\* Store the incremented counter, print the progress line, release the lock;
\* handle_device returns.
FinUnlock(d) ==
  /\ pc[d] = "fin_unlock"
  /\ completed_devices' = reg[d] + 1
  /\ counted' = [counted EXCEPT ![d] = @ + 1]
  /\ progress_lock' = 0
  /\ Finish(d, ret[d], exc[d])
  /\ UNCHANGED <<devices, total_devices, mac_found_event, queue, coordVars,
                 elapsed, setBy, sawTarget, found_assigns, macVars>>

Poller(d) ==
  \/ HdCheck(d) \/ SkipLock(d) \/ SkipUnlock(d) \/ VhCheck(d) \/ LoopCheck(d)
  \/ Send(d) \/ FinLock(d) \/ FinUnlock(d)

\* ----------------------------------------------------------------- main
\* executor.submit(handle_device, device_info, ...) for the next device line.
Submit ==
  /\ cpc = "submit"
  /\ IF ci <= NumDevices
     THEN /\ fut' = [fut EXCEPT ![ci] = "pending"]
          /\ queue' = Append(queue, ci)
          /\ ci' = ci + 1
          /\ UNCHANGED cpc
     ELSE /\ cpc' = "as_completed"
          /\ UNCHANGED <<fut, queue, ci>>
  /\ UNCHANGED <<devices, sharedVars, fresult, fexc, yielded, found_result, outcome,
                 pollerVars, historyVars, callVars, macVars>>

\* A loop that takes every non-empty result and never breaks.
CoordLoopLastWins(d) ==
  /\ cpc = "as_completed"
  /\ d \in Devices \ yielded
  /\ fut[d] \in {"finished", "cancelled"}
  /\ yielded' = yielded \cup {d}
  /\ IF fut[d] = "finished" /\ ~fexc[d] /\ fresult[d] # None
     THEN /\ found_result' = fresult[d]
          /\ found_assigns' = found_assigns + 1
          /\ mac_found_event' = SetEvent(mac_found_event)
          /\ setBy' = setBy \cup {Coordinator}
     ELSE UNCHANGED <<found_result, mac_found_event, setBy, found_assigns>>
  /\ UNCHANGED <<devices, total_devices, completed_devices, progress_lock, poolVars,
                 cpc, ci, outcome, pollerVars, counted, sawTarget, callVars, macVars>>

\* One iteration of `for future in as_completed(future_to_device)` on the
\* completed future d: the break at the head, future.result(), and for a
\* non-empty result the assignment, the set() and the break.
CoordLoop(d) ==
  /\ cpc = "as_completed"
  /\ d \in Devices \ yielded
  /\ fut[d] \in {"finished", "cancelled"}
  /\ yielded' = yielded \cup {d}
  /\ IF StopConsuming(mac_found_event, found_result)
     THEN /\ cpc' = "cancel"
          /\ ci' = 1
          /\ UNCHANGED <<found_result, mac_found_event, setBy, found_assigns>>
     ELSE IF fut[d] = "finished" /\ ~fexc[d] /\ fresult[d] # None
          THEN /\ found_result' = fresult[d]
               /\ found_assigns' = found_assigns + 1
               /\ mac_found_event' = SetEvent(mac_found_event)
               /\ setBy' = setBy \cup {Coordinator}
               /\ cpc' = "cancel"
               /\ ci' = 1
          ELSE UNCHANGED <<cpc, ci, found_result, mac_found_event, setBy, found_assigns>>
  /\ UNCHANGED <<devices, total_devices, completed_devices, progress_lock, poolVars,
                 outcome, pollerVars, counted, sawTarget, callVars, macVars>>

\* as_completed has yielded every future: the loop ends without a break.
CoordLoopEnd ==
  /\ cpc = "as_completed"
  /\ yielded = Devices
  /\ cpc' = "cancel"
  /\ ci' = 1
  /\ UNCHANGED <<devices, sharedVars, poolVars, yielded, found_result, outcome,
                 pollerVars, historyVars, callVars, macVars>>

\* `if found_result:` and one iteration of the loop that cancels the futures
\* that are not done; cancel() succeeds on a future that has not started.
Cancel ==
  /\ cpc = "cancel"
  /\ IF found_result # None /\ ci <= NumDevices
     THEN /\ fut' = [fut EXCEPT ![ci] = IF @ = "pending" THEN "cancelled" ELSE @]
          /\ ci' = ci + 1
          /\ UNCHANGED cpc
     ELSE /\ cpc' = "shutdown"
          /\ UNCHANGED <<fut, ci>>
  /\ UNCHANGED <<devices, sharedVars, queue, fresult, fexc, yielded, found_result,
                 outcome, pollerVars, historyVars, callVars, macVars>>

\* The end of the `with` block waits for the pool to drain; then the summary
\* names the outcome.
Summary ==
  /\ cpc = "shutdown"
  /\ queue = <<>>
  /\ Running = {}
  /\ cpc' = "done"
  /\ outcome' = IF found_result # None THEN "Found" ELSE "NotFoundAnywhere"
  /\ UNCHANGED <<devices, sharedVars, poolVars, ci, yielded, found_result,
                 pollerVars, historyVars, callVars, macVars>>

Next ==
  \/ Submit
  \/ \E d \in Devices : Start(d)
  \/ \E d \in Devices : Poller(d)
  \/ \E d \in Devices : CoordLoop(d)
  \/ CoordLoopEnd
  \/ Cancel
  \/ Summary

Spec == Init /\ [][Next]_vars

\* The scan when every transport call returns and the threads keep being
\* scheduled: a step that can be taken is eventually taken.
FairSpec == Spec /\ WF_vars(Next)

\* ------------------------------------------------------- the MAC formats
\* The two conversions applied to a standard MAC text, one after the other.
MacInit ==
  /\ ScanInit
  /\ devices = [d \in Devices |-> "valid"]
  /\ search_mac \in StandardMacs
  /\ huawei_mac = <<>>
  /\ standard_mac = <<>>

ToHuawei ==
  /\ huawei_mac = <<>>
  /\ huawei_mac' = mac_to_huawei_format(search_mac)
  /\ UNCHANGED <<scanVars, search_mac, standard_mac>>

ToStandard ==
  /\ huawei_mac # <<>>
  /\ standard_mac = <<>>
  /\ standard_mac' = huawei_mac_to_standard(huawei_mac)
  /\ UNCHANGED <<scanVars, search_mac, huawei_mac>>

MacNext == ToHuawei \/ ToStandard

MacSpec == MacInit /\ [][MacNext]_vars

\* ---------------------------------------------------------------- claims
Finished(d) == fut[d] = "finished"
Returned == { fresult[d] : d \in { e \in Devices : Finished(e) } } \ { None }

\* C1: if some poller returned a Match Record, the final outcome is Found with
\* a record a poller returned, never NotFoundAnywhere; and no completion that
\* main consumes, before or after, replaces or erases an accepted record.
C1_FoundIsKept ==
  /\ [](cpc = "done" /\ Returned # {} => outcome = "Found" /\ found_result \in Returned)
  /\ [][found_result # None => found_result' = found_result]_vars

\* A finished scan in which main consumed a None completion, accepted a record,
\* and a third poller returned None without being consumed.
C1_Witness ==
  /\ cpc = "done"
  /\ outcome = "Found"
  /\ \E d \in yielded : fresult[d] = None
  /\ \E d \in Devices \ yielded : Finished(d) /\ fresult[d] = None

\* C2: found_result is assigned a result at most once in a run, also when two
\* pollers return a Match Record each.
C2_AssignedOnce == found_assigns <= 1

\* Two pollers returned a record each and main has printed its summary.
C2_Witness ==
  /\ cpc = "done"
  /\ found_assigns = 1
  /\ \E d1, d2 \in Devices : d1 # d2 /\ fresult[d1] # None /\ fresult[d2] # None

\* C3: the stop signal is a latch: it is true whenever a poller holds or has
\* returned a Match Record, and no step of a poller or of main clears it.
C3_Latch ==
  /\ [](\A d \in Devices : ret[d] # None \/ fresult[d] # None => mac_found_event)
  /\ [][mac_found_event => mac_found_event']_vars

\* The signal was set by a poller and set again by main, and a poller that
\* started afterwards has returned.
C3_Witness ==
  /\ mac_found_event
  /\ Coordinator \in setBy
  /\ setBy \cap Devices # {}
  /\ \E d \in Devices : Finished(d) /\ counted[d] = 0

\* C4: if no device's output ever held the target, the final outcome is
\* NotFoundAnywhere and at the end every device has been counted exactly once:
\* completed_devices = total_devices.
C4_NoMatchAllCounted ==
  cpc = "done" /\ sawTarget = {} =>
    /\ outcome = "NotFoundAnywhere"
    /\ completed_devices = total_devices
    /\ \A d \in Devices : Finished(d) /\ counted[d] = 1

\* A finished scan of a mixed device list in which no output held the target.
C4_Witness ==
  /\ cpc = "done"
  /\ sawTarget = {}
  /\ \E d \in Devices : devices[d] = "fields"
  /\ \E d \in Devices : devices[d] = "vendor"
  /\ \E d \in Devices : devices[d] = "valid"

\* C5: with more devices than workers, never more than max_workers pollers run
\* at once, and a queued call starts only when fewer than max_workers run.
C5_BoundedPool ==
  /\ [](Cardinality(Running) <= max_workers)
  /\ [][\A d \in Devices : fut[d] = "pending" /\ fut'[d] = "running"
          => Cardinality(Running) < max_workers]_vars

\* The pool is full and one of the running calls had been queued behind the
\* first max_workers calls: it started after one of them had finished.
C5_Witness ==
  /\ NumDevices > max_workers
  /\ Cardinality(Running) = max_workers
  /\ \E d \in Running : d > max_workers
  /\ \E d \in Devices : Finished(d)

\* C6: every handle_device call that has run has incremented the completed
\* counter exactly once when it returns, whatever its outcome, the skipped
\* outcome of a set stop signal included.
C6_CountedOnce == \A d \in Devices : Finished(d) => counted[d] = 1

\* A device line that handle_device skips: wrong field count or unknown vendor.
Malformed(d) == devices[d] \in {"fields", "vendor"}

\* C7: a malformed device line opens no session and gets no command, and its
\* call has incremented the completed counter exactly once when it returns.
C7_MalformedCounted ==
  \A d \in Devices : Malformed(d) =>
    /\ conn[d] = "none"
    /\ pc[d] \notin {"vh_check", "loop_check", "send"}
    /\ Finished(d) => counted[d] = 1

\* C8: a poller whose device never answered with the target holds and returns
\* no record and has never set the stop signal.
C8_NoTargetNoSignal ==
  \A d \in Devices : d \notin sawTarget =>
    /\ d \notin setBy
    /\ ret[d] = None
    /\ fresult[d] = None

\* A vendor handler has returned after polling a device that never answered
\* with the target, while no stop signal was set.
C8_Witness ==
  \E d \in Devices :
    /\ pc[d] \in {"fin_lock", "fin_unlock"}
    /\ conn[d] = "closed"
    /\ d \notin sawTarget
    /\ ~mac_found_event

\* C9: a poller that acquired a session has released it when handle_device
\* returns, on every exit path.
C9_SessionReleased == \A d \in Devices : pc[d] = "fin_unlock" => conn[d] # "open"

\* A poller leaves the try block through an error: ssh_connect returned None
\* (no session) or a transport call raised (the session is still open).
ErrorExit(d) == pc[d] \in {"fin_lock", "fin_unlock"} /\ conn[d] \in {"none", "open"}

\* C10: an error on one device makes its poller return without a record, counted
\* as completed; nothing is raised out of handle_device; the step that takes
\* the error changes no other poller, no future and nothing of main; and if a
\* poller returns a record the final outcome is Found.
C10_ErrorsContained ==
  /\ [](\A d \in Devices : ~exc[d] /\ ~fexc[d] /\ (ErrorExit(d) => ret[d] = None))
  /\ [](cpc = "done" /\ Returned # {} => outcome = "Found")
  /\ [][\A d \in Devices :
          /\ ~ErrorExit(d) /\ ErrorExit(d)' =>
               /\ \A e \in Devices \ {d} :
                    /\ pc'[e] = pc[e] /\ ret'[e] = ret[e] /\ conn'[e] = conn[e]
                    /\ fut'[e] = fut[e] /\ fresult'[e] = fresult[e]
               /\ UNCHANGED <<coordVars, fut, fresult, completed_devices>>
          /\ pc[d] = "fin_unlock" /\ ErrorExit(d) /\ pc'[d] = "done" =>
               /\ counted'[d] = counted[d] + 1
               /\ fresult'[d] = None
               /\ Finished(d)']_vars

\* A transport call of one poller raised after main accepted the record of
\* another poller.
C10_Witness ==
  \E d1, d2 \in Devices :
    /\ d1 # d2
    /\ ErrorExit(d1) /\ conn[d1] = "open"
    /\ found_result # None /\ found_result = fresult[d2]

\* C11: for every standard MAC text (six two-digit hexadecimal groups joined by
\* colons, in any case), huawei_mac_to_standard(mac_to_huawei_format(m)) is m
\* in uppercase, colon-separated.
C11_RoundTrip == standard_mac # <<>> => standard_mac = UpperStr(search_mac)

\* Both conversions were applied to a MAC text of mixed case: the result
\* differs from the input, which holds an uppercase letter too, and the
\* Huawei form holds the two hyphens.
C11_Witness ==
  /\ standard_mac # <<>>
  /\ standard_mac # search_mac
  /\ \E i \in 1..Len(search_mac) : search_mac[i] \in UpperLetters
  /\ Len(huawei_mac) = 14 /\ huawei_mac[5] = "-" /\ huawei_mac[10] = "-"

\* C12: a poller that finds the stop signal set when handle_device is entered
\* returns at once: it opens no session, sends no command, and its call
\* finishes with no Match Record.
C12_EarlyAbort ==
  [][\A d \in Devices :
       pc[d] = "hd_check" /\ mac_found_event /\ pc'[d] # pc[d] =>
         /\ pc'[d] = "done"
         /\ Finished(d)'
         /\ fresult'[d] = None
         /\ conn[d] = "none" /\ conn'[d] = "none"
         /\ afterStop'[d] = 0]_vars

\* The call for a valid device line has finished without a record and without
\* reporting its completion: it met the set signal at entry.
C12_Witness ==
  \E d \in Devices :
    /\ devices[d] = "valid"
    /\ Finished(d)
    /\ fresult[d] = None
    /\ counted[d] = 0
    /\ mac_found_event

\* C13: inside the polling loop a poller checks the stop signal before each
\* lookup and before each sleep: it goes on to send a lookup, and it starts the
\* sleep of poll_sleep units, only when the signal is not set.
C13_CheckedBeforeSendAndSleep ==
  [][\A d \in Devices :
       /\ pc[d] = "loop_check" /\ pc'[d] = "send" => ~mac_found_event
       /\ pc[d] = "send" /\ pc'[d] = "loop_check" => ~mac_found_event]_vars

\* C14: an empty output is terminal: the poller that got it sends no further
\* lookup and does not sleep, its handler returns no record, and the poller
\* has not set the stop signal.
C14_EmptyIsTerminal ==
  \A d \in gotEmpty :
    /\ pc[d] \in {"fin_lock", "fin_unlock"}
    /\ ret[d] = None
    /\ d \notin setBy

\* A poller got an empty output and closed its session, while no stop signal
\* was set.
C14_Witness ==
  \E d \in gotEmpty :
    /\ pc[d] = "fin_lock"
    /\ conn[d] = "closed"
    /\ ~mac_found_event

\* C15: the mac field of every Match Record a poller returns is the target,
\* whatever other rows the output holds and in whatever order.
C15_RecordIsTarget ==
  \A d \in Devices :
    /\ ret[d] # None => ret[d][1] = "target"
    /\ fresult[d] # None => fresult[d][1] = "target"

\* The pollers inside the critical section of the completion report.
InCritical == { d \in Devices : pc[d] \in {"skip_unlock", "fin_unlock"} }

RECURSIVE SumCounted(_)
SumCounted(S) ==
  IF S = {} THEN 0
  ELSE LET d == CHOOSE e \in S : TRUE IN counted[d] + SumCounted(S \ {d})

\* C16: the completion report runs under progress_lock: at most one poller is
\* inside it, and it holds the lock; no increment is lost (completed_devices is
\* the number of reports made); and completed_devices never exceeds
\* total_devices.
C16_SafeCompletion ==
  /\ Cardinality(InCritical) <= 1
  /\ \A d \in InCritical : progress_lock = d
  /\ completed_devices = SumCounted(Devices)
  /\ completed_devices <= total_devices

\* One poller is inside the completion report while two others wait for the
\* lock, one of them on the skip path, after an earlier report was made.
C16_Witness ==
  /\ \E d1, d2 \in Devices :
       /\ pc[d1] = "fin_unlock"
       /\ pc[d2] \in {"fin_lock", "skip_lock"}
  /\ \E d \in Devices : counted[d] = 1 /\ Finished(d)

\* C17 as stated: set() is called at most once in a run, and by a poller.
C17_SetOnce == Cardinality(setBy) <= 1 /\ setBy \subseteq Devices

\* C17, amended: the stop signal goes from unset to set once, by a poller that
\* matched a row; it is set exactly when someone has called set(); main calls
\* set() only after a poller did, and further calls leave the signal set.
C17_FirstSetByPoller ==
  /\ [](mac_found_event <=> setBy # {})
  /\ [](Coordinator \in setBy => setBy \cap Devices # {})
  /\ [][~mac_found_event /\ mac_found_event' =>
         \E d \in Devices : setBy' = {d} /\ d \in sawTarget']_vars
  /\ [][mac_found_event => mac_found_event']_vars

\* Two pollers and main have each called set().
C17_Witness ==
  /\ Cardinality(setBy \cap Devices) >= 2
  /\ Coordinator \in setBy
  /\ mac_found_event

\* C18: when transport calls return and the clock advances, no poller sends a
\* lookup once its elapsed time has reached timeout_per_device, every started
\* poller eventually returns, and main eventually reports Found or
\* NotFoundAnywhere.
C18_Terminates ==
  /\ [](\A d \in Devices : pc[d] = "send" => elapsed[d] < timeout_per_device)
  /\ \A d \in Devices : (fut[d] = "running") ~> Finished(d)
  /\ <>(cpc = "done" /\ outcome \in {"Found", "NotFoundAnywhere"})

\* A poller left its polling loop by the timeout: its handler returned and
\* closed the session though no output was empty or held the target and no
\* stop signal was set; another call has already returned.
C18_Witness ==
  /\ \E d \in Devices :
       /\ pc[d] = "fin_lock" /\ conn[d] = "closed"
       /\ d \notin gotEmpty /\ d \notin sawTarget
  /\ ~mac_found_event
  /\ \E d \in Devices : Finished(d)

\* C19: if the stop signal is set when the scan ends, the outcome is Found.
C19_SignalMeansFound == cpc = "done" /\ mac_found_event => outcome = "Found"

\* C20: once the stop signal is set, a poller inside its polling loop sends at
\* most one more lookup before it returns, and a poller that has not entered
\* its vendor handler's loop sends no command and returns without a record.
C20_BoundedAfterStop ==
  /\ [](\A d \in Devices : afterStop[d] <= 1)
  /\ [][\A d \in Devices :
          mac_found_event /\ pc[d] \in {"hd_check", "vh_check"} /\ pc'[d] # pc[d] =>
            /\ pc'[d] \in {"done", "fin_lock"}
            /\ ret'[d] = None
            /\ afterStop'[d] = 0]_vars

\* With the signal set, one poller has sent a lookup and slept, and another
\* has been started and has not entered its vendor handler.
C20_Witness ==
  /\ mac_found_event
  /\ \E d \in Devices : afterStop[d] = 1 /\ pc[d] = "loop_check"
  /\ \E d \in Devices : pc[d] = "hd_check"

====
